---- MODULE Spec2Model ----
(***************************************************************************)
(* Model of the media-outlet dashboard: the record store, the selection    *)
(* state held by the Dashboard component, its event handlers, the values   *)
(* the Dashboard derives from them on every render, and the events of its  *)
(* views: the tabs, the charts, the ownership tree and the selection panel.*)
(***************************************************************************)
EXTENDS Integers, Sequences, FiniteSets, TLC

(* ---------------------------------------------------------------------- *)
(* Bounds and input domains                                                *)
(* ---------------------------------------------------------------------- *)

\* largest number of rows of the loaded CSV
MaxRecords == 2

\* the JavaScript value undefined of a `string | undefined`
undefined == "<undefined>"

\* owner strings: the empty string, and two that differ only in case
OwnerNames == {"", "A", "a"}

\* outlet ids: the empty string and two others
OutletNames == {"", "X", "Y"}

\* arguments of the handlers: string | undefined
OwnerArgs == OwnerNames \cup {undefined}

OutletArgs == OutletNames \cup {undefined}

\* the fields of MediaOutlet that selection, filtering and grouping read
MediaOutlet == [outlet : OutletNames, owner : OwnerNames]

\* the arrays parseCSV can resolve to ([] included: no rows, or a failed fetch)
Stores == UNION {[1..n -> MediaOutlet] : n \in 0..MaxRecords}

\* largest number of rows of a store whose records carry an audience size
MaxAudienceRecords == 3

\* a JavaScript number: an integer, or NaN
NaN == [nan |-> TRUE, val |-> 0]

Num(n) == [nan |-> FALSE, val |-> n]

\* owners of the stores with audience sizes
AudienceOwnerNames == {"Acme", "B"}

\* the outlet id of the i-th row of such a store (ids are unique)
OutletIdAt(i) == <<"X", "Y", "Z", "W", "V", "U">>[i]

\* what parseInt leaves in audience_size: NaN for an empty or non-numeric field
AudienceSizes == {NaN, Num(500000), Num(1000000)}

\* the stores with audience sizes, of at most MaxAudienceRecords rows
AudienceStores ==
    UNION {{[i \in 1..n |-> [outlet |-> OutletIdAt(i),
                             owner |-> owners[i],
                             audience_size |-> sizes[i]]] :
                owners \in [1..n -> AudienceOwnerNames],
                sizes \in [1..n -> AudienceSizes]} :
           n \in 0..MaxAudienceRecords}

\* handler arguments used with these stores
AudienceOwnerArgs == AudienceOwnerNames \cup {undefined}

AudienceOutletArgs == {OutletIdAt(i) : i \in 1..MaxAudienceRecords} \cup {undefined}

\* largest number of data rows of a CSV file that is parsed
MaxCsvRows == 2

\* the value undefined where a number is expected (founding_year, end_year)
undefinedNumber == [undefined |-> TRUE]

\* two header lines: the documented one, and one with the columns in another
\* order and padded with blanks
CsvHeaders ==
    {<<"outlet", "owner", "founding_year", "end_year", "audience_size">>,
     <<"owner", " outlet ", "audience_size", "end_year ", "founding_year">>}

\* the raw text of a field and what it means: a string (trimmed), an integer,
\* an empty field, or text that is not a number
CsvFields ==
    [outlet |-> {[text |-> "X", kind |-> "string", string |-> "X"],
                 [text |-> " Y ", kind |-> "string", string |-> "Y"]},
     owner |-> {[text |-> "A", kind |-> "string", string |-> "A"]},
     founding_year |-> {[text |-> "1990", kind |-> "integer", int |-> 1990],
                        [text |-> "x", kind |-> "garbage"]},
     end_year |-> {[text |-> "", kind |-> "empty"],
                   [text |-> " 2000", kind |-> "integer", int |-> 2000]},
     audience_size |-> {[text |-> "500000", kind |-> "integer", int |-> 500000],
                        [text |-> "", kind |-> "empty"],
                        [text |-> "n/a", kind |-> "garbage"]}]

\* a data row: one raw field per column
CsvRows ==
    [outlet : CsvFields.outlet, owner : CsvFields.owner,
     founding_year : CsvFields.founding_year, end_year : CsvFields.end_year,
     audience_size : CsvFields.audience_size]

\* a CSV file: a header line, the line terminator, and at most MaxCsvRows rows
CsvFiles ==
    UNION {[header : CsvHeaders, eol : {"\n", "\r\n"}, rows : [1..n -> CsvRows],
            settled : {"resolved"}] :
           n \in 0..MaxCsvRows}

\* how the fetch of the file can end: the text of a file, or a rejection of
\* fetch() or of response.text()
Responses ==
    CsvFiles \cup {[settled |-> "fetch rejected"], [settled |-> "text rejected"]}

(* ---------------------------------------------------------------------- *)
(* State                                                                   *)
(* ---------------------------------------------------------------------- *)

VARIABLES
    data,               \* useState<MediaOutlet[]>([])
    highlightedOwner,   \* useState<string | undefined>()
    selectedOwner,      \* useState<string | undefined>()
    selectedOutlet,     \* useState<string | undefined>()
    loading,            \* useState(true)
    last,               \* history: the last event, its argument, and the selection
                        \* and store before it
    outletArgsInStore,  \* history: every handleOutletSelect argument so far was
                        \* undefined or the id of a record of the store
    activeTab,          \* useState<'timeline' | 'ownership' | 'bubble' | 'radial'>('timeline')
    expandedNodes,      \* OwnershipTree: useState<Set<string>>(new Set()), the
                        \* empty set while the tree is not mounted
    error               \* the exception that ended the Dashboard, undefined while
                        \* none was thrown

vars == <<data, highlightedOwner, selectedOwner, selectedOutlet, loading,
          last, outletArgsInStore, activeTab, expandedNodes, error>>

\* the state of the views: what the handlers of the Dashboard never write
view == <<activeTab, expandedNodes, error>>

\* the three selection fields as they are now
SelectionState ==
    [hoveredOwner |-> highlightedOwner,
     selectedOwner |-> selectedOwner,
     selectedOutlet |-> selectedOutlet]

\* the history record of an event
Event(op, arg) == [op |-> op, arg |-> arg, pre |-> SelectionState, store |-> data]

(* ---------------------------------------------------------------------- *)
(* Helpers                                                                 *)
(* ---------------------------------------------------------------------- *)

\* JavaScript truthiness of a string | undefined: undefined and "" are falsy
Truthy(v) == v # undefined /\ v # ""

\* a + b on JavaScript numbers: NaN is absorbing
Plus(a, b) == IF a.nan \/ b.nan THEN NaN ELSE Num(a.val + b.val)

\* a - b on JavaScript numbers
Minus(a, b) == IF a.nan \/ b.nan THEN NaN ELSE Num(a.val - b.val)

\* a || 0 on a JavaScript number: NaN and 0 are falsy
OrZero(a) == IF a.nan \/ a.val = 0 THEN Num(0) ELSE a

\* Array.prototype.find(d => d.outlet === outlet): the index of the first
\* matching record, 0 when there is none (find returns undefined)
find(outlets, outlet) ==
    LET hits == {i \in DOMAIN outlets : outlets[i].outlet = outlet}
    IN  IF hits = {} THEN 0
        ELSE CHOOSE i \in hits : \A j \in hits : i <= j

(* ---------------------------------------------------------------------- *)
(* CSV text                                                                *)
(* ---------------------------------------------------------------------- *)

\* the i-th character of a string
CharAt(s, i) == SubSeq(s, i, i)

\* the characters String.prototype.trim removes
WhiteSpace == {" ", "\t", "\n", "\r"}

RECURSIVE TrimStart(_)
TrimStart(s) ==
    IF s # "" /\ CharAt(s, 1) \in WhiteSpace
    THEN TrimStart(SubSeq(s, 2, Len(s)))
    ELSE s

RECURSIVE TrimEnd(_)
TrimEnd(s) ==
    IF s # "" /\ CharAt(s, Len(s)) \in WhiteSpace
    THEN TrimEnd(SubSeq(s, 1, Len(s) - 1))
    ELSE s

\* variant of Trim: only leading white space is removed
Trim_StartOnly(s) == TrimStart(s)

\* String.prototype.trim
Trim(s) == TrimEnd(TrimStart(s))

\* String.prototype.split with a one-character separator
RECURSIVE Split(_, _)
Split(s, separator) ==
    LET hits == {i \in 1..Len(s) : CharAt(s, i) = separator}
    IN  IF hits = {} THEN <<s>>
        ELSE LET i == CHOOSE i \in hits : \A j \in hits : i <= j
             IN  <<SubSeq(s, 1, i - 1)>> \o Split(SubSeq(s, i + 1, Len(s)), separator)

\* the decimal digits, the digit d at position d + 1
Digits == "0123456789"

IsDigit(c) == \E d \in 0..9 : CharAt(Digits, d + 1) = c

DigitValue(c) == CHOOSE d \in 0..9 : CharAt(Digits, d + 1) = c

\* the length of the longest prefix of s made of digits
RECURSIVE DigitPrefix(_)
DigitPrefix(s) ==
    IF s # "" /\ IsDigit(CharAt(s, 1))
    THEN 1 + DigitPrefix(SubSeq(s, 2, Len(s)))
    ELSE 0

\* the number the first n characters of s, all digits, denote
RECURSIVE DecimalValue(_, _)
DecimalValue(s, n) ==
    IF n = 0 THEN 0
    ELSE 10 * DecimalValue(s, n - 1) + DigitValue(CharAt(s, n))

\* parseInt(value): leading white space is skipped, a sign is read, then the
\* longest run of digits; NaN when there is no digit (undefined included);
\* no input here has the 0x prefix that JavaScript reads as hexadecimal
parseInt(value) ==
    IF value = undefined THEN NaN
    ELSE LET t == TrimStart(value)
             signed == t # "" /\ CharAt(t, 1) \in {"-", "+"}
             body == IF signed THEN SubSeq(t, 2, Len(t)) ELSE t
             n == DigitPrefix(body)
         IN  IF n = 0 THEN NaN
             ELSE IF signed /\ CharAt(t, 1) = "-"
                  THEN Num(0 - DecimalValue(body, n))
                  ELSE Num(DecimalValue(body, n))

\* line.split(',').map(v => v.trim())
SplitAndTrim(line) ==
    LET pieces == Split(line, ",")
    IN  [i \in DOMAIN pieces |-> Trim(pieces[i])]

\* values[index]: undefined beyond the end of the array
ValueAt(values, index) ==
    IF index \in DOMAIN values THEN values[index] ELSE undefined

\* what headers.forEach stores under headers[index]
FieldValue(header, value) ==
    IF header \in {"founding_year", "end_year"}
    THEN IF Truthy(value) THEN parseInt(value) ELSE undefinedNumber
    ELSE IF header = "audience_size"
         THEN parseInt(value)
         ELSE value

\* the object built for one line: headers.forEach assigns in order, so the
\* last column of a name wins
ParseLine(headers, line) ==
    LET values == SplitAndTrim(line)
        LastIndex(header) ==
            CHOOSE i \in DOMAIN headers :
                headers[i] = header /\ \A j \in DOMAIN headers : headers[j] = header => j <= i
    IN  [header \in {headers[i] : i \in DOMAIN headers} |->
            FieldValue(header, ValueAt(values, LastIndex(header)))]

\* the try block of parseCSV once the text is there
ParseText(text) ==
    LET lines == Split(Trim(text), "\n")
        headers == SplitAndTrim(lines[1])
    IN  [k \in 1..(Len(lines) - 1) |-> ParseLine(headers, lines[k + 1])]

\* the elements of a sequence of strings joined with a separator
RECURSIVE Join(_, _)
Join(strings, separator) ==
    IF strings = <<>> THEN ""
    ELSE IF Len(strings) = 1 THEN strings[1]
    ELSE strings[1] \o separator \o Join(Tail(strings), separator)

\* the text of a CSV file: the header line and the rows, each ended by the
\* line terminator, the fields of a row in the order of the header's columns
CsvText(file) ==
    LET LineOf(row) ==
            Join([i \in DOMAIN file.header |-> row[Trim(file.header[i])].text], ",")
        lines == <<Join(file.header, ",")>>
                 \o [k \in DOMAIN file.rows |-> LineOf(file.rows[k])]
    IN  Join(lines, file.eol) \o file.eol

\* parseCSV: the parsed text, or [] when fetch() or response.text() rejects
parseCSV(response) ==
    IF response.settled = "resolved" THEN ParseText(CsvText(response)) ELSE <<>>

(* ---------------------------------------------------------------------- *)
(* Hierarchy builder                                                       *)
(* ---------------------------------------------------------------------- *)

\* "A" folded to "a": the key a case-insensitive Map would use
LowerCase(owner) == IF owner = "A" THEN "a" ELSE owner

\* variant of MapHas: keys compared without regard to case
MapHas_IgnoreCase(ownerMap, owner) ==
    \E i \in DOMAIN ownerMap : LowerCase(ownerMap[i].key) = LowerCase(owner)

\* Map.has(owner) on a Map kept as its entries in insertion order
MapHas(ownerMap, owner) == \E i \in DOMAIN ownerMap : ownerMap[i].key = owner

\* ownerMap.set(owner, []) for a key the map does not hold yet
MapSetEmpty(ownerMap, owner) == Append(ownerMap, [key |-> owner, value |-> <<>>])

\* variant of MapPush: the record is put in front of the owner's list
MapPush_Prepend(ownerMap, owner, outlet) ==
    [i \in DOMAIN ownerMap |->
        IF ownerMap[i].key = owner
        THEN [ownerMap[i] EXCEPT !.value = <<outlet>> \o @]
        ELSE ownerMap[i]]

\* ownerMap.get(owner)!.push(outlet)
MapPush(ownerMap, owner, outlet) ==
    [i \in DOMAIN ownerMap |->
        IF ownerMap[i].key = owner
        THEN [ownerMap[i] EXCEPT !.value = Append(@, outlet)]
        ELSE ownerMap[i]]

\* outlets.forEach(outlet => {...}) from index i on, ownerMap being the Map so far
RECURSIVE ForEachOutlet(_, _, _)
ForEachOutlet(ownerMap, outlets, i) ==
    IF i > Len(outlets) THEN ownerMap
    ELSE LET outlet == outlets[i]
             withKey == IF ~MapHas(ownerMap, outlet.owner)
                        THEN MapSetEmpty(ownerMap, outlet.owner)
                        ELSE ownerMap
         IN  ForEachOutlet(MapPush(withKey, outlet.owner, outlet), outlets, i + 1)

\* Array.from(ownerMap.entries()).map(...): one OwnerNode per Map entry
groupByOwner(outlets) ==
    LET ownerMap == ForEachOutlet(<<>>, outlets, 1)
    IN  [i \in DOMAIN ownerMap |->
            [id |-> ownerMap[i].key,
             name |-> ownerMap[i].key,
             type |-> "owner",
             children |->
                [j \in DOMAIN ownerMap[i].value |->
                    [id |-> ownerMap[i].value[j].outlet,
                     name |-> ownerMap[i].value[j].outlet,
                     type |-> "outlet",
                     outlet |-> ownerMap[i].value[j]]]]]

(* ---------------------------------------------------------------------- *)
(* Values the Dashboard derives on every render                            *)
(* ---------------------------------------------------------------------- *)

\* variant of FilterKeeps: the outlet selection is not applied
FilterKeeps_OwnerOnly(d, owner, outlet) ==
    ~(Truthy(owner) /\ d.owner # owner)

\* the callback of data.filter, for the selection (owner, outlet)
FilterKeeps(d, owner, outlet) ==
    /\ ~(Truthy(owner) /\ d.owner # owner)
    /\ ~(Truthy(outlet) /\ d.outlet # outlet)

\* data.filter(...) for the selection (owner, outlet)
filter(outlets, owner, outlet) ==
    SelectSeq(outlets, LAMBDA d : FilterKeeps(d, owner, outlet))

\* variant of filteredData: the highlighted owner filters in place of the
\* selected one
filteredData_OfHighlighted == filter(data, highlightedOwner, selectedOutlet)

filteredData == filter(data, selectedOwner, selectedOutlet)

ownershipData == groupByOwner(filteredData)

\* variant of totalOutlets: the records of the store are counted
totalOutlets_Unfiltered == Len(data)

totalOutlets == Len(filteredData)

\* new Set(values).size: the values that no earlier element of the array equals
SetSize(values) ==
    Cardinality({i \in DOMAIN values : \A j \in 1..(i - 1) : values[j] # values[i]})

\* variant of uniqueOwners: the owners of the whole store are counted
uniqueOwners_OfStore == SetSize([i \in DOMAIN data |-> data[i].owner])

uniqueOwners == SetSize([i \in DOMAIN filteredData |-> filteredData[i].owner])

\* filteredData.reduce((sum, outlet) => sum + outlet.audience_size, 0), the
\* first n records done
RECURSIVE ReduceAudience(_, _)
ReduceAudience(outlets, n) ==
    IF n = 0 THEN Num(0)
    ELSE Plus(ReduceAudience(outlets, n - 1), outlets[n].audience_size)

totalAudience == ReduceAudience(filteredData, Len(filteredData))

(* ---------------------------------------------------------------------- *)
(* Selection panel: the per-owner list                                     *)
(* ---------------------------------------------------------------------- *)

\* variant of OwnersStep: the record that creates an owner's entry is not counted
OwnersStep_CountRepeatsOnly(map, outlet) ==
    IF ~MapHas(map, outlet.owner)
    THEN Append(map, [key |-> outlet.owner,
                      value |-> [name |-> outlet.owner,
                                 count |-> 0,
                                 totalAudience |-> OrZero(outlet.audience_size)]])
    ELSE [k \in DOMAIN map |->
            IF map[k].key = outlet.owner
            THEN [map[k] EXCEPT
                    !.value.count = @ + 1,
                    !.value.totalAudience = Plus(@, OrZero(outlet.audience_size))]
            ELSE map[k]]

\* one step of the reducer: the owner's entry is created on first sight, then
\* its count and totalAudience are updated
OwnersStep(map, outlet) ==
    LET withKey == IF ~MapHas(map, outlet.owner)
                   THEN Append(map, [key |-> outlet.owner,
                                     value |-> [name |-> outlet.owner,
                                                count |-> 0,
                                                totalAudience |-> Num(0)]])
                   ELSE map
    IN  [k \in DOMAIN withKey |->
            IF withKey[k].key = outlet.owner
            THEN [withKey[k] EXCEPT
                    !.value.count = @ + 1,
                    !.value.totalAudience = Plus(@, OrZero(outlet.audience_size))]
            ELSE withKey[k]]

\* data.reduce(..., new Map()), the first n records done
RECURSIVE ReduceOwners(_, _)
ReduceOwners(outlets, n) ==
    IF n = 0 THEN <<>>
    ELSE OwnersStep(ReduceOwners(outlets, n - 1), outlets[n])

\* a.count where a is an entry [key, value] of Array.from(map): the array has
\* no count property, the value is undefined and arithmetic makes it NaN
EntryCount(entry) == NaN

\* the comparator (a, b) => b.count - a.count
CompareOwners(a, b) == Minus(EntryCount(b), EntryCount(a))

\* the order Array.prototype.sort reads from a comparator result: NaN counts as 0
SortOrder(v) == IF v.nan THEN 0 ELSE v.val

\* the stable sort puts x behind every element it does not have to precede
InsertSorted(sorted, x) ==
    LET before == {i \in DOMAIN sorted : SortOrder(CompareOwners(sorted[i], x)) > 0}
        at == IF before = {} THEN Len(sorted) + 1
              ELSE CHOOSE i \in before : \A j \in before : i <= j
    IN  SubSeq(sorted, 1, at - 1) \o <<x>> \o SubSeq(sorted, at, Len(sorted))

\* entries.sort(CompareOwners), the first n entries done
RECURSIVE SortOwners(_, _)
SortOwners(entries, n) ==
    IF n = 0 THEN <<>>
    ELSE InsertSorted(SortOwners(entries, n - 1), entries[n])

\* the owners list of the SelectionPanel, built from its data prop (the store)
owners ==
    LET entries == ReduceOwners(data, Len(data))
    IN  SortOwners(entries, Len(entries))

(* ---------------------------------------------------------------------- *)
(* Initial state and the one-shot load                                     *)
(* ---------------------------------------------------------------------- *)

Init ==
    /\ data = <<>>
    /\ highlightedOwner = undefined
    /\ selectedOwner = undefined
    /\ selectedOutlet = undefined
    /\ loading = TRUE
    /\ last = [op |-> "init", arg |-> undefined,
               pre |-> [hoveredOwner |-> undefined,
                        selectedOwner |-> undefined,
                        selectedOutlet |-> undefined],
               store |-> <<>>]
    /\ outletArgsInStore = TRUE
    /\ activeTab = "timeline"
    /\ expandedNodes = {}
    /\ error = undefined

\* the effect run once after mount: setData(await parseCSV(...)), then
\* setLoading(false)
loadData ==
    /\ loading = TRUE
    /\ \E outlets \in Stores : data' = outlets
    /\ loading' = FALSE
    /\ last' = Event("loadData", undefined)
    /\ UNCHANGED view
    /\ UNCHANGED <<highlightedOwner, selectedOwner, selectedOutlet,
                   outletArgsInStore>>

\* the same load, of a store whose records carry audience sizes
loadAudienceData ==
    /\ loading = TRUE
    /\ \E outlets \in AudienceStores : data' = outlets
    /\ loading' = FALSE
    /\ last' = Event("loadData", undefined)
    /\ UNCHANGED view
    /\ UNCHANGED <<highlightedOwner, selectedOwner, selectedOutlet,
                   outletArgsInStore>>

\* variant of loadCsv: setLoading(false) is reached only when the fetch resolved
loadCsv_NoFinally(response) ==
    /\ loading = TRUE
    /\ data' = parseCSV(response)
    /\ loading' = (response.settled # "resolved")
    /\ last' = Event("loadData", response)
    /\ UNCHANGED view
    /\ UNCHANGED <<highlightedOwner, selectedOwner, selectedOutlet,
                   outletArgsInStore>>

\* the same load with parseCSV spelled out: the fetch settles, the text is
\* parsed, setData and setLoading(false) follow
loadCsv(response) ==
    /\ loading = TRUE
    /\ data' = parseCSV(response)
    /\ loading' = FALSE
    /\ last' = Event("loadData", response)
    /\ UNCHANGED view
    /\ UNCHANGED <<highlightedOwner, selectedOwner, selectedOutlet,
                   outletArgsInStore>>

(* ---------------------------------------------------------------------- *)
(* Event handlers of the Dashboard (reachable once the loading screen is   *)
(* gone)                                                                   *)
(* ---------------------------------------------------------------------- *)

\* variant of handleOwnerHover: the hover also selects the owner
handleOwnerHover_Selects(owner) ==
    /\ loading = FALSE
    /\ highlightedOwner' = owner
    /\ selectedOwner' = owner
    /\ last' = Event("hover", owner)
    /\ UNCHANGED view
    /\ UNCHANGED <<data, selectedOutlet, loading, outletArgsInStore>>

handleOwnerHover(owner) ==
    /\ loading = FALSE
    /\ highlightedOwner' = owner
    /\ last' = Event("hover", owner)
    /\ UNCHANGED view
    /\ UNCHANGED <<data, selectedOwner, selectedOutlet, loading,
                   outletArgsInStore>>

\* variant of handleOwnerSelect: the outlet selection is not cleared
handleOwnerSelect_KeepOutlet(owner) ==
    /\ loading = FALSE
    /\ selectedOwner' = owner
    /\ highlightedOwner' = owner
    /\ last' = Event("selectOwner", owner)
    /\ UNCHANGED view
    /\ UNCHANGED <<data, selectedOutlet, loading, outletArgsInStore>>

handleOwnerSelect(owner) ==
    /\ loading = FALSE
    /\ selectedOwner' = owner
    /\ selectedOutlet' = undefined
    /\ highlightedOwner' = owner
    /\ last' = Event("selectOwner", owner)
    /\ UNCHANGED view
    /\ UNCHANGED <<data, loading, outletArgsInStore>>

\* variant of handleOutletSelect: deselecting the outlet drops the highlight
\* instead of restoring it to the selected owner
handleOutletSelect_NoRestore(outlet) ==
    /\ loading = FALSE
    /\ selectedOutlet' = outlet
    /\ IF Truthy(outlet)
       THEN LET selectedOutletData == find(data, outlet)
            IN  IF selectedOutletData # 0
                THEN /\ selectedOwner' = data[selectedOutletData].owner
                     /\ highlightedOwner' = data[selectedOutletData].owner
                ELSE UNCHANGED <<selectedOwner, highlightedOwner>>
       ELSE /\ highlightedOwner' = undefined
            /\ UNCHANGED selectedOwner
    /\ last' = Event("selectOutlet", outlet)
    /\ outletArgsInStore' =
          (outletArgsInStore /\ (outlet = undefined \/ find(data, outlet) # 0))
    /\ UNCHANGED view
    /\ UNCHANGED <<data, loading>>

handleOutletSelect(outlet) ==
    /\ loading = FALSE
    /\ selectedOutlet' = outlet
    /\ IF Truthy(outlet)
       THEN LET selectedOutletData == find(data, outlet)
            IN  IF selectedOutletData # 0
                THEN /\ selectedOwner' = data[selectedOutletData].owner
                     /\ highlightedOwner' = data[selectedOutletData].owner
                ELSE UNCHANGED <<selectedOwner, highlightedOwner>>
       ELSE /\ highlightedOwner' = selectedOwner
            /\ UNCHANGED selectedOwner
    /\ last' = Event("selectOutlet", outlet)
    /\ outletArgsInStore' =
          (outletArgsInStore /\ (outlet = undefined \/ find(data, outlet) # 0))
    /\ UNCHANGED view
    /\ UNCHANGED <<data, loading>>

\* variant of clearAll: the outlet selection is not reset
clearAll_KeepOutlet ==
    /\ loading = FALSE
    /\ Truthy(selectedOwner) \/ Truthy(selectedOutlet)
    /\ selectedOwner' = undefined
    /\ highlightedOwner' = undefined
    /\ last' = Event("clearAll", undefined)
    /\ UNCHANGED view
    /\ UNCHANGED <<data, selectedOutlet, loading, outletArgsInStore>>

\* the clear button of the header, rendered when (selectedOwner || selectedOutlet)
clearAll ==
    /\ loading = FALSE
    /\ Truthy(selectedOwner) \/ Truthy(selectedOutlet)
    /\ selectedOwner' = undefined
    /\ selectedOutlet' = undefined
    /\ highlightedOwner' = undefined
    /\ last' = Event("clearAll", undefined)
    /\ UNCHANGED view
    /\ UNCHANGED <<data, loading, outletArgsInStore>>

Next ==
    \/ loadData
    \/ \E owner \in OwnerArgs : handleOwnerHover(owner)
    \/ \E owner \in OwnerArgs : handleOwnerSelect(owner)
    \/ \E outlet \in OutletArgs : handleOutletSelect(outlet)
    \/ clearAll

\* the dashboard over the stores with audience sizes
AudienceNext ==
    \/ loadAudienceData
    \/ \E owner \in AudienceOwnerArgs : handleOwnerHover(owner)
    \/ \E owner \in AudienceOwnerArgs : handleOwnerSelect(owner)
    \/ \E outlet \in AudienceOutletArgs : handleOutletSelect(outlet)
    \/ clearAll

AudienceSpec == Init /\ [][AudienceNext]_vars

\* the load alone, over the CSV files; the effect runs once, while the loading
\* screen is shown
ParseNext == loading = TRUE /\ \E response \in Responses : loadCsv(response)

ParseSpec == Init /\ [][ParseNext]_vars

\* the responses used where the load is followed by the handlers: the
\* rejections and the files of at most one row
LoadResponses ==
    [header : CsvHeaders, eol : {"\n", "\r\n"}, rows : {<<>>} \cup {<<row>> : row \in CsvRows},
     settled : {"resolved"}]
    \cup {[settled |-> "fetch rejected"], [settled |-> "text rejected"]}

\* the load step: the effect runs once after mount and the fetch settles
LoadStep == loading = TRUE /\ \E response \in LoadResponses : loadCsv(response)

\* the dashboard from mount on: the load, then events on what was loaded
LoadNext ==
    \/ LoadStep
    \/ \E owner \in {undefined, "A"} : handleOwnerHover(owner)
    \/ \E owner \in {undefined, "A"} : handleOwnerSelect(owner)
    \/ \E outlet \in {undefined, "X", "Y"} : handleOutletSelect(outlet)
    \/ clearAll

\* the effect is run and the promise of the fetch settles: the load step is
\* taken when it stays possible
LoadSpec == Init /\ [][LoadNext]_vars /\ WF_vars(LoadStep)

Spec == Init /\ [][Next]_vars

(* ---------------------------------------------------------------------- *)
(* The views: the tabs, the four charts and the ownership tree's expansion *)
(* ---------------------------------------------------------------------- *)

\* largest number of rows of a store shown in the views
MaxViewRecords == 2

\* the owner and the audience size of a row of those stores: a bubble is drawn
\* for a size above zero, none for the NaN an empty field leaves
ViewRows ==
    {[owner |-> "Acme", audience_size |-> Num(500000)],
     [owner |-> "B", audience_size |-> Num(500000)],
     [owner |-> "B", audience_size |-> NaN]}

\* the stores shown in the views, of at most MaxViewRecords rows
ViewStores ==
    UNION {{[i \in 1..n |-> [outlet |-> OutletIdAt(i),
                             owner |-> rows[i].owner,
                             audience_size |-> rows[i].audience_size]] :
                rows \in [1..n -> ViewRows]} :
           n \in 0..MaxViewRecords}

\* the load of such a store
loadViewData ==
    /\ loading = TRUE
    /\ \E outlets \in ViewStores : data' = outlets
    /\ loading' = FALSE
    /\ last' = Event("loadData", undefined)
    /\ UNCHANGED view
    /\ UNCHANGED <<highlightedOwner, selectedOwner, selectedOutlet,
                   outletArgsInStore>>

\* the Dashboard is past its loading screen and no exception has ended it
Running == loading = FALSE /\ error = undefined

\* the owners and the outlet ids the records of the store name
StoreOwners == {data[i].owner : i \in DOMAIN data}

StoreOutlets == {data[i].outlet : i \in DOMAIN data}

\* the ids of the tabs array
Tabs == {"timeline", "ownership", "radial", "bubble"}

\* variant of setActiveTab: the tab switch also empties the store
setActiveTab_EmptiesStore(tab) ==
    /\ Running
    /\ activeTab' = tab
    /\ expandedNodes' = IF tab = activeTab THEN expandedNodes ELSE {}
    /\ data' = <<>>
    /\ UNCHANGED <<highlightedOwner, selectedOwner, selectedOutlet,
                   loading, last, outletArgsInStore, error>>

\* a tab button: setActiveTab(tab.id). Only the chart of the active tab is
\* mounted, so leaving the tab of the ownership tree drops its expansion state
setActiveTab(tab) ==
    /\ Running
    /\ activeTab' = tab
    /\ expandedNodes' = IF tab = activeTab THEN expandedNodes ELSE {}
    /\ UNCHANGED <<data, highlightedOwner, selectedOwner, selectedOutlet,
                   loading, last, outletArgsInStore, error>>

\* a > b on JavaScript numbers: false when either is NaN
Greater(a, b) == ~a.nan /\ ~b.nan /\ a.val > b.val

\* (b.children?.length || 0) - (a.children?.length || 0)
CompareChildren(a, b) == Len(b.children) - Len(a.children)

\* the stable sort puts x behind every node it does not have to precede
InsertByChildren(sorted, x) ==
    LET before == {i \in DOMAIN sorted : CompareChildren(sorted[i], x) > 0}
        at == IF before = {} THEN Len(sorted) + 1
              ELSE CHOOSE i \in before : \A j \in before : i <= j
    IN  SubSeq(sorted, 1, at - 1) \o <<x>> \o SubSeq(sorted, at, Len(sorted))

\* nodes.sort(CompareChildren), the first n nodes done
RECURSIVE SortByChildren(_, _)
SortByChildren(nodes, n) ==
    IF n = 0 THEN <<>>
    ELSE InsertByChildren(SortByChildren(nodes, n - 1), nodes[n])

\* [...data].sort(...) of both trees: the owners by number of outlets, descending
sortedData ==
    LET nodes == ownershipData
    IN  SortByChildren(nodes, Len(nodes))

\* the ownership tree's filteredData: an owner keeps its children when expanded
OwnershipTree_filteredData ==
    LET sorted == sortedData
    IN  [i \in DOMAIN sorted |->
            [sorted[i] EXCEPT
                !.children = IF sorted[i].id \in expandedNodes THEN @ ELSE <<>>]]

\* the root datum handed to d3.hierarchy
root(children) ==
    [id |-> "root", name |-> "Media Outlets", type |-> "root", children |-> children]

\* root.descendants(): the data of the root, the owners and their children
descendants(r) ==
    LET nodes == r.children
    IN  {r} \cup {nodes[i] : i \in DOMAIN nodes}
            \cup UNION {{nodes[i].children[j] : j \in DOMAIN nodes[i].children} :
                        i \in DOMAIN nodes}

\* what each chart has drawn. A chart is mounted while its tab is active, and
\* its effect draws nothing for empty data
TimelineBars ==
    IF activeTab # "timeline" THEN {}
    ELSE LET shown == filteredData
         IN  IF Len(shown) = 0 THEN {} ELSE {shown[i] : i \in DOMAIN shown}

\* the legend: the owners of the bars (slice(0, 8) keeps them all, a store here
\* has fewer owners)
TimelineLegend == {d.owner : d \in TimelineBars}

\* validData: a bubble for each record with audience_size > 0
Bubbles ==
    IF activeTab # "bubble" THEN {}
    ELSE LET shown == filteredData
         IN  IF Len(shown) = 0 THEN {}
             ELSE {shown[i] : i \in {j \in DOMAIN shown :
                                        Greater(shown[j].audience_size, Num(0))}}

OwnershipTreeNodes ==
    IF activeTab # "ownership" THEN {}
    ELSE LET shown == OwnershipTree_filteredData
         IN  IF Len(shown) = 0 THEN {} ELSE descendants(root(shown))

RadialTreeNodes ==
    IF activeTab # "radial" THEN {}
    ELSE LET shown == sortedData
         IN  IF Len(shown) = 0 THEN {} ELSE descendants(root(shown))

(* ---------------------------------------------------------------------- *)
(* Mouse events of the charts; each chart gets handleOwnerHover as its     *)
(* onOwnerHover                                                            *)
(* ---------------------------------------------------------------------- *)

\* Timeline, a bar: onOwnerHover(d.owner). Here and below the datum d is one
\* of the elements the chart has drawn
barMouseover(d) ==
    /\ Running
    /\ activeTab = "timeline"
    /\ handleOwnerHover(d.owner)

\* variant of barMouseout: the highlight returns to the selected owner
barMouseout_RestoresSelection ==
    /\ Running
    /\ TimelineBars # {}
    /\ handleOwnerHover(selectedOwner)

\* Timeline, a bar: onOwnerHover(undefined)
barMouseout ==
    /\ Running
    /\ TimelineBars # {}
    /\ handleOwnerHover(undefined)

\* Timeline, a legend item: onOwnerHover(d), d being an owner
legendMouseover(d) ==
    /\ Running
    /\ activeTab = "timeline"
    /\ handleOwnerHover(d)

legendMouseout ==
    /\ Running
    /\ TimelineLegend # {}
    /\ handleOwnerHover(undefined)

\* BubbleChart, a bubble: onOwnerHover(d.owner)
bubbleMouseover(d) ==
    /\ Running
    /\ activeTab = "bubble"
    /\ handleOwnerHover(d.owner)

bubbleMouseout ==
    /\ Running
    /\ Bubbles # {}
    /\ handleOwnerHover(undefined)

\* the mouseover handler of both trees: an owner node emits its name, an
\* outlet node the owner of its record, the root nothing
nodeMouseover(d) ==
    IF d.type = "owner" THEN handleOwnerHover(d.name)
    ELSE IF "outlet" \in DOMAIN d THEN handleOwnerHover(d.outlet.owner)
    ELSE UNCHANGED vars

\* OwnershipTree, a node
treeMouseover(d) ==
    /\ Running
    /\ activeTab = "ownership"
    /\ nodeMouseover(d)

treeMouseout ==
    /\ Running
    /\ OwnershipTreeNodes # {}
    /\ handleOwnerHover(undefined)

\* RadialTree, a node
radialMouseover(d) ==
    /\ Running
    /\ activeTab = "radial"
    /\ nodeMouseover(d)

radialMouseout ==
    /\ Running
    /\ RadialTreeNodes # {}
    /\ handleOwnerHover(undefined)

(* ---------------------------------------------------------------------- *)
(* The ownership tree: expanding and collapsing                            *)
(* ---------------------------------------------------------------------- *)

\* variant of toggleNode: expanding an owner collapses the others
toggleNode_CollapsesOthers(nodeId) ==
    /\ expandedNodes' = IF nodeId \in expandedNodes
                        THEN expandedNodes \ {nodeId}
                        ELSE {nodeId}
    /\ UNCHANGED <<data, highlightedOwner, selectedOwner, selectedOutlet,
                   loading, last, outletArgsInStore, activeTab, error>>

\* setExpandedNodes(prev => ...): the id is deleted when present, added when not
toggleNode(nodeId) ==
    /\ expandedNodes' = IF nodeId \in expandedNodes
                        THEN expandedNodes \ {nodeId}
                        ELSE expandedNodes \cup {nodeId}
    /\ UNCHANGED <<data, highlightedOwner, selectedOwner, selectedOutlet,
                   loading, last, outletArgsInStore, activeTab, error>>

\* sortedData.find(owner => owner.id === id): its position, 0 when there is none
findOwner(sorted, id) ==
    IF \E i \in DOMAIN sorted : sorted[i].id = id
    THEN CHOOSE i \in DOMAIN sorted :
            /\ sorted[i].id = id
            /\ \A j \in 1..(i - 1) : sorted[j].id # id
    ELSE 0

\* the click handler of a node: only an owner node with children toggles
nodeClick(d) ==
    /\ Running
    /\ activeTab = "ownership"
    /\ IF d.type = "owner"
       THEN LET sorted == sortedData
                originalOwner == findOwner(sorted, d.id)
            IN  IF originalOwner # 0 /\ Len(sorted[originalOwner].children) > 0
                THEN toggleNode(d.id)
                ELSE UNCHANGED vars
       ELSE UNCHANGED vars

\* the Collapse All button: setExpandedNodes(new Set())
collapseAll ==
    /\ Running
    /\ activeTab = "ownership"
    /\ expandedNodes' = {}
    /\ UNCHANGED <<data, highlightedOwner, selectedOwner, selectedOutlet,
                   loading, last, outletArgsInStore, activeTab, error>>

\* the Expand All button: setExpandedNodes(new Set(data.map(d => d.id)))
expandAll ==
    /\ Running
    /\ activeTab = "ownership"
    /\ expandedNodes' = {ownershipData[i].id : i \in DOMAIN ownershipData}
    /\ UNCHANGED <<data, highlightedOwner, selectedOwner, selectedOutlet,
                   loading, last, outletArgsInStore, activeTab, error>>

(* ---------------------------------------------------------------------- *)
(* The selection panel's buttons and the callbacks the Dashboard hands it  *)
(* ---------------------------------------------------------------------- *)

\* the identifiers the Dashboard writes for the panel's two callback props
onOwnerSelect == "handleOwnerHighlight"

onOutletSelect == "handleOutletHighlight"

\* a call of what an identifier names in the Dashboard: one of its three
\* handlers, or a ReferenceError for a name declared nowhere, which ends the
\* Dashboard and all it has mounted
Call(identifier, arg) ==
    IF identifier = "handleOwnerHover" THEN handleOwnerHover(arg)
    ELSE IF identifier = "handleOwnerSelect" THEN handleOwnerSelect(arg)
    ELSE IF identifier = "handleOutletSelect" THEN handleOutletSelect(arg)
    ELSE /\ error' = "ReferenceError"
         /\ expandedNodes' = {}
         /\ UNCHANGED <<data, highlightedOwner, selectedOwner, selectedOutlet,
                        loading, last, outletArgsInStore, activeTab>>

\* the argument of an owner button: undefined for the owner that is selected
OwnerButtonArg(owner) ==
    IF owner.value.name = selectedOwner THEN undefined ELSE owner.value.name

\* the argument of an outlet button: undefined for the outlet that is selected
OutletButtonArg(outlet) ==
    IF outlet.outlet = selectedOutlet THEN undefined ELSE outlet.outlet

\* the "All Owners" button
allOwnersClick ==
    /\ Running
    /\ Call(onOwnerSelect, undefined)

\* the button of an entry of the owners list
ownerButtonClick(owner) ==
    /\ Running
    /\ \E i \in DOMAIN owners : owners[i] = owner
    /\ Call(onOwnerSelect, OwnerButtonArg(owner))

\* the "All Outlets" button
allOutletsClick ==
    /\ Running
    /\ Call(onOutletSelect, undefined)

\* the button of a record of the store
outletButtonClick(outlet) ==
    /\ Running
    /\ \E i \in DOMAIN data : data[i] = outlet
    /\ Call(onOutletSelect, OutletButtonArg(outlet))

\* the dashboard with its views: the load, the coordinator's operations on
\* what the store names, and the events of the tabs, the charts and the panel
ViewNext ==
    \/ loadViewData
    \/ \E owner \in StoreOwners \cup {undefined} : Running /\ handleOwnerSelect(owner)
    \/ \E outlet \in StoreOutlets \cup {undefined} : Running /\ handleOutletSelect(outlet)
    \/ Running /\ clearAll
    \/ \E tab \in Tabs : setActiveTab(tab)
    \/ \E d \in TimelineBars : barMouseover(d)
    \/ barMouseout
    \/ \E d \in TimelineLegend : legendMouseover(d)
    \/ legendMouseout
    \/ \E d \in Bubbles : bubbleMouseover(d)
    \/ bubbleMouseout
    \/ \E d \in OwnershipTreeNodes : treeMouseover(d)
    \/ treeMouseout
    \/ \E d \in RadialTreeNodes : radialMouseover(d)
    \/ radialMouseout
    \/ \E d \in OwnershipTreeNodes : nodeClick(d)
    \/ collapseAll
    \/ expandAll
    \/ allOwnersClick
    \/ \E i \in DOMAIN owners : ownerButtonClick(owners[i])
    \/ allOutletsClick
    \/ \E i \in DOMAIN data : outletButtonClick(data[i])

ViewSpec == Init /\ [][ViewNext]_vars

(* ---------------------------------------------------------------------- *)
(* Selection state: the handlers' effects                                  *)
(* ---------------------------------------------------------------------- *)

\* the outlet ids of the store are pairwise distinct
UniqueOutletIds ==
    \A i, j \in DOMAIN data : data[i].outlet = data[j].outlet => i = j

\* C1: when every outlet argument so far was undefined or the id of a record
\* of the store, a set selectedOutlet comes with selectedOwner set to the
\* owner of the record with that outlet id.
C1_OutletImpliesOwner ==
    (outletArgsInStore /\ selectedOutlet # undefined) =>
        /\ selectedOwner # undefined
        /\ find(data, selectedOutlet) # 0
        /\ selectedOwner = data[find(data, selectedOutlet)].owner

\* C2: selectOwner(o) ends with selectedOwner = o, selectedOutlet unset and
\* hoveredOwner = o, for every o, undefined included.
C2_SelectOwnerPost ==
    last.op = "selectOwner" =>
        /\ selectedOwner = last.arg
        /\ selectedOutlet = undefined
        /\ highlightedOwner = last.arg
        /\ (last.arg = undefined =>
                selectedOwner = undefined /\ selectedOutlet = undefined)

\* selectOwner(o) has run from a state with an outlet and another owner selected
C2_Witness ==
    /\ last.op = "selectOwner"
    /\ last.arg \in OwnerNames
    /\ last.pre.selectedOutlet \in OutletNames
    /\ last.pre.selectedOwner \in OwnerNames \ {last.arg}

\* C3: selectOutlet(x), x the id of a record of the store, ends with
\* selectedOutlet = x and selectedOwner = hoveredOwner = the owner of record x.
C3_SelectOutletPost ==
    (last.op = "selectOutlet" /\ last.arg # undefined /\ find(data, last.arg) # 0) =>
        /\ selectedOutlet = last.arg
        /\ selectedOwner = data[find(data, last.arg)].owner
        /\ highlightedOwner = data[find(data, last.arg)].owner

\* C4: selectOutlet(undefined) clears selectedOutlet, keeps selectedOwner as it
\* was, and sets hoveredOwner to that selectedOwner.
C4_DeselectOutletPost ==
    (last.op = "selectOutlet" /\ last.arg = undefined) =>
        /\ selectedOutlet = undefined
        /\ selectedOwner = last.pre.selectedOwner
        /\ highlightedOwner = last.pre.selectedOwner

\* selectOutlet(undefined) has run with an outlet and its owner selected and
\* the highlight elsewhere
C4_Witness ==
    /\ last.op = "selectOutlet"
    /\ last.arg = undefined
    /\ last.pre.selectedOutlet \in OutletNames
    /\ last.pre.selectedOwner \in OwnerNames
    /\ last.pre.hoveredOwner # last.pre.selectedOwner
    /\ highlightedOwner = last.pre.selectedOwner

\* C5: hover(o) sets hoveredOwner = o and leaves selectedOwner, selectedOutlet
\* and the record store as they were.
C5_HoverFrame ==
    last.op = "hover" =>
        /\ highlightedOwner = last.arg
        /\ selectedOwner = last.pre.selectedOwner
        /\ selectedOutlet = last.pre.selectedOutlet
        /\ data = last.store

\* hover(o) has run over a non-empty store while another owner and an outlet
\* were selected
C5_Witness ==
    /\ last.op = "hover"
    /\ data # <<>>
    /\ selectedOutlet \in OutletNames
    /\ selectedOwner \in OwnerNames
    /\ highlightedOwner # selectedOwner
    /\ last.pre.hoveredOwner # highlightedOwner

\* C6: clearAll() ends with hoveredOwner, selectedOwner and selectedOutlet all
\* unset, and then the visible record set is the whole record store.
C6_ClearAllPost ==
    last.op = "clearAll" =>
        /\ highlightedOwner = undefined
        /\ selectedOwner = undefined
        /\ selectedOutlet = undefined
        /\ filteredData = data

\* clearAll() has run from a selection that hid part of the store
C6_Witness ==
    /\ last.op = "clearAll"
    /\ last.pre.selectedOutlet \in OutletNames
    /\ last.pre.selectedOwner \in OwnerNames
    /\ Len(filter(data, last.pre.selectedOwner, last.pre.selectedOutlet)) < Len(data)
    /\ filteredData = data

(* ---------------------------------------------------------------------- *)
(* Filtering                                                               *)
(* ---------------------------------------------------------------------- *)

\* the filtering contract: unset means undefined, every string is a value
VisibleByContract(outlets, owner, outlet) ==
    SelectSeq(outlets,
              LAMBDA r : /\ (owner = undefined \/ r.owner = owner)
                         /\ (outlet = undefined \/ r.outlet = outlet))

\* C7: the visible record set is the records r, in store order, with
\* (selectedOwner unset or r.owner = selectedOwner) and (selectedOutlet unset
\* or r.outlet = selectedOutlet), the empty string being a value like any other.
C7_FilterContract ==
    filteredData = VisibleByContract(data, selectedOwner, selectedOutlet)

\* C8: selectOutlet(x) with x non-empty and the id of no record is a no-op:
\* the three selection fields, and so the visible record set, stay as they were.
C8_UnknownOutletNoOp ==
    (last.op = "selectOutlet" /\ Truthy(last.arg) /\ find(data, last.arg) = 0) =>
        /\ SelectionState = last.pre
        /\ filteredData = filter(data, last.pre.selectedOwner, last.pre.selectedOutlet)

\* C9: in a store with unique outlet ids, when every outlet argument so far was
\* undefined or an id of the store, a set selectedOutlet leaves exactly one
\* visible record, the one with that outlet id.
C9_OutletSelectsOneRecord ==
    (UniqueOutletIds /\ outletArgsInStore /\ selectedOutlet # undefined) =>
        /\ find(data, selectedOutlet) # 0
        /\ filteredData = <<data[find(data, selectedOutlet)]>>

(* ---------------------------------------------------------------------- *)
(* Hierarchy builder                                                       *)
(* ---------------------------------------------------------------------- *)

\* the positions <<i, j>> of the children of all OwnerNodes
ChildPositions(nodes) ==
    UNION {{<<i, j>> : j \in DOMAIN nodes[i].children} : i \in DOMAIN nodes}

\* C10: groupByOwner returns one OwnerNode per distinct owner string (exact,
\* case-sensitive), every input record is a child of exactly the node whose id
\* is its owner, none dropped or duplicated, the children number the input
\* length, and an empty input gives an empty output.
C10_GroupByOwnerPartition ==
    LET input == filteredData
        nodes == groupByOwner(input)
    IN  /\ {nodes[i].id : i \in DOMAIN nodes} = {input[k].owner : k \in DOMAIN input}
        /\ \A i, j \in DOMAIN nodes : nodes[i].id = nodes[j].id => i = j
        /\ \A p \in ChildPositions(nodes) :
              nodes[p[1]].children[p[2]].outlet.owner = nodes[p[1]].id
        /\ \A r \in MediaOutlet :
              Cardinality({p \in ChildPositions(nodes) :
                              nodes[p[1]].children[p[2]].outlet = r})
                = Cardinality({k \in DOMAIN input : input[k] = r})
        /\ Cardinality(ChildPositions(nodes)) = Len(input)
        /\ (input = <<>> => nodes = <<>>)

\* groupByOwner has grouped records whose owners differ only in case
C10_Witness ==
    /\ loading = FALSE
    /\ \E i, j \in DOMAIN filteredData :
          filteredData[i].owner = "A" /\ filteredData[j].owner = "a"
    /\ Len(ownershipData) = 2
    /\ \A i \in DOMAIN ownershipData : Len(ownershipData[i].children) = 1

\* C11: the children of each OwnerNode are the input records with that owner,
\* in the order in which the input has them.
C11_ChildrenKeepInputOrder ==
    LET input == filteredData
        nodes == groupByOwner(input)
    IN  \A i \in DOMAIN nodes :
            [j \in DOMAIN nodes[i].children |-> nodes[i].children[j].outlet]
              = SelectSeq(input, LAMBDA r : r.owner = nodes[i].id)

\* groupByOwner has grouped two different records of one owner
C11_Witness ==
    /\ loading = FALSE
    /\ \E i \in DOMAIN ownershipData :
          /\ Len(ownershipData[i].children) >= 2
          /\ ownershipData[i].children[1].id # ownershipData[i].children[2].id

(* ---------------------------------------------------------------------- *)
(* Derived statistics                                                      *)
(* ---------------------------------------------------------------------- *)

\* the positions of the store's records that the current selection keeps visible
VisiblePositions ==
    {i \in DOMAIN data : FilterKeeps(data[i], selectedOwner, selectedOutlet)}

\* C12: totalOutlets is the number of visible records and uniqueOwners the
\* number of distinct owner strings among them.
C12_CountsOfVisible ==
    /\ totalOutlets = Cardinality(VisiblePositions)
    /\ uniqueOwners = Cardinality({data[i].owner : i \in VisiblePositions})

\* an owner selection hides one of the two records of the store
C12_Witness ==
    /\ loading = FALSE
    /\ Len(data) = 2
    /\ Truthy(selectedOwner)
    /\ totalOutlets = 1
    /\ uniqueOwners = 1

\* the sum of the audience sizes of the first n records, NaN counted as 0
RECURSIVE ZeroFilledAudience(_, _)
ZeroFilledAudience(outlets, n) ==
    IF n = 0 THEN 0
    ELSE ZeroFilledAudience(outlets, n - 1)
         + (IF outlets[n].audience_size.nan THEN 0 ELSE outlets[n].audience_size.val)

\* C13: totalAudience is the sum of audience_size over the visible records, a
\* record whose audience_size is not a valid number contributing 0, so that
\* totalAudience is always a valid non-negative number.
C13_TotalAudienceZeroFills ==
    loading = FALSE =>
        /\ totalAudience = Num(ZeroFilledAudience(filteredData, Len(filteredData)))
        /\ ~totalAudience.nan
        /\ totalAudience.val >= 0

(* ---------------------------------------------------------------------- *)
(* Selection panel                                                         *)
(* ---------------------------------------------------------------------- *)

\* the records of the store owned by owner, in store order
RecordsOf(owner) == SelectSeq(data, LAMBDA r : r.owner = owner)

\* the position in the store of the first record of owner
FirstSeen(owner) ==
    CHOOSE i \in DOMAIN data :
        data[i].owner = owner /\ \A j \in 1..(i - 1) : data[j].owner # owner

\* C14: the per-owner list has one entry per distinct owner of the unfiltered
\* store, with that owner's outlet count and summed audience size, ordered by
\* outlet count descending, ties in first-encounter order.
C14_OwnersListByCountDescending ==
    loading = FALSE =>
        /\ {owners[i].key : i \in DOMAIN owners} = {data[k].owner : k \in DOMAIN data}
        /\ \A i, j \in DOMAIN owners : owners[i].key = owners[j].key => i = j
        /\ \A i \in DOMAIN owners :
              /\ owners[i].value.name = owners[i].key
              /\ owners[i].value.count = Len(RecordsOf(owners[i].key))
              /\ owners[i].value.totalAudience =
                    Num(ZeroFilledAudience(RecordsOf(owners[i].key),
                                           Len(RecordsOf(owners[i].key))))
        /\ \A i, j \in DOMAIN owners :
              i < j =>
                \/ owners[i].value.count > owners[j].value.count
                \/ /\ owners[i].value.count = owners[j].value.count
                   /\ FirstSeen(owners[i].key) < FirstSeen(owners[j].key)

\* the sum of the count fields of the first n entries of the owners list
RECURSIVE SumOfCounts(_, _)
SumOfCounts(entries, n) ==
    IF n = 0 THEN 0 ELSE SumOfCounts(entries, n - 1) + entries[n].value.count

\* the sum of the numbers of children of the first n OwnerNodes
RECURSIVE SumOfChildren(_, _)
SumOfChildren(nodes, n) ==
    IF n = 0 THEN 0 ELSE SumOfChildren(nodes, n - 1) + Len(nodes[n].children)

\* C15: for a non-empty record list the per-owner outlet counts, of the
\* selection panel's list and of groupByOwner's OwnerNodes alike, add up to the
\* number of records.
C15_OwnerCountsAddUp ==
    data # <<>> =>
        /\ SumOfCounts(owners, Len(owners)) = Len(data)
        /\ SumOfChildren(groupByOwner(data), Len(groupByOwner(data))) = Len(data)
        /\ SumOfChildren(ownershipData, Len(ownershipData)) = Len(filteredData)

\* a store of three records of two owners has been loaded
C15_Witness ==
    /\ loading = FALSE
    /\ Len(data) = 3
    /\ Len(owners) = 2
    /\ Len(groupByOwner(data)) = 2

\* C16: with no visible record, totalOutlets, uniqueOwners and totalAudience are
\* 0 and the hierarchy is empty; each derived value is a value, none is missing.
C16_EmptyVisibleSet ==
    (loading = FALSE /\ VisiblePositions = {}) =>
        /\ totalOutlets = 0
        /\ uniqueOwners = 0
        /\ totalAudience = Num(0)
        /\ ownershipData = <<>>

\* a selection that matches no record of a non-empty store is in force
C16_Witness ==
    /\ loading = FALSE
    /\ data # <<>>
    /\ VisiblePositions = {}
    /\ last.op \in {"selectOwner", "selectOutlet"}

(* ---------------------------------------------------------------------- *)
(* The worked example                                                      *)
(* ---------------------------------------------------------------------- *)

\* the store of the example: X and Y, both owned by Acme
ExampleStore ==
    <<[outlet |-> "X", owner |-> "Acme", audience_size |-> Num(1000000)],
      [outlet |-> "Y", owner |-> "Acme", audience_size |-> Num(500000)]>>

\* the selection right after selectOwner("Acme")
AfterSelectAcme ==
    [hoveredOwner |-> "Acme", selectedOwner |-> "Acme", selectedOutlet |-> undefined]

\* C17: over the example store, groupByOwner yields the single OwnerNode Acme
\* with 2 children and the unfiltered totalAudience is 1500000; after
\* selectOwner(Acme) 2 records are visible; after a following selectOutlet(Y)
\* 1 record is visible and selectedOwner is Acme.
C17_WorkedExample ==
    data = ExampleStore =>
        /\ Len(groupByOwner(data)) = 1
        /\ groupByOwner(data)[1].id = "Acme"
        /\ Len(groupByOwner(data)[1].children) = 2
        /\ ReduceAudience(filter(data, undefined, undefined), 2) = Num(1500000)
        /\ (last.op = "selectOwner" /\ last.arg = "Acme") => totalOutlets = 2
        /\ (last.op = "selectOutlet" /\ last.arg = "Y" /\ last.pre = AfterSelectAcme) =>
              totalOutlets = 1 /\ selectedOwner = "Acme"

\* selectOutlet(Y) has run right after selectOwner(Acme) over the example store
C17_Witness ==
    /\ data = ExampleStore
    /\ last.op = "selectOutlet"
    /\ last.arg = "Y"
    /\ last.pre = AfterSelectAcme
    /\ filteredData = <<ExampleStore[2]>>

(* ---------------------------------------------------------------------- *)
(* CSV ingestion                                                           *)
(* ---------------------------------------------------------------------- *)

\* the column names of the header
ColumnNames == {"outlet", "owner", "founding_year", "end_year", "audience_size"}

\* the columns parsed as numbers
NumericColumns == {"founding_year", "end_year", "audience_size"}

\* a file has just been parsed
Parsed == last.op = "loadData" /\ last.arg.settled = "resolved"

\* C18: every data row becomes one record keyed by the header's column names;
\* founding_year, end_year and audience_size are the integers written in their
\* fields, an empty end_year field gives an unset end_year, outlet and owner
\* are the trimmed field text, and there are as many records as data rows.
C18_ParseCsvRecords ==
    Parsed =>
        /\ Len(data) = Len(last.arg.rows)
        /\ \A k \in DOMAIN data :
              LET row == last.arg.rows[k]
              IN  /\ DOMAIN data[k] = ColumnNames
                  /\ data[k].outlet = row.outlet.string
                  /\ data[k].owner = row.owner.string
                  /\ \A c \in NumericColumns :
                        row[c].kind = "integer" => data[k][c] = Num(row[c].int)
                  /\ row.end_year.kind = "empty" => data[k].end_year = undefinedNumber

\* a file with padded columns, CR LF line ends and two rows, with a padded
\* outlet, a padded end_year and an empty end_year, has been parsed
C18_Witness ==
    /\ Parsed
    /\ last.arg.eol = "\r\n"
    /\ last.arg.header[1] = "owner"
    /\ Len(data) = 2
    /\ last.arg.rows[1].outlet.text = " Y "
    /\ data[1].outlet = "Y"
    /\ data[1].end_year = Num(2000)
    /\ data[2].end_year = undefinedNumber
    /\ data[2].audience_size = Num(500000)

\* the sum of the audience sizes written as integers in the first n rows
RECURSIVE WrittenAudience(_, _)
WrittenAudience(rows, n) ==
    IF n = 0 THEN 0
    ELSE WrittenAudience(rows, n - 1)
         + (IF rows[n].audience_size.kind = "integer" THEN rows[n].audience_size.int ELSE 0)

\* C19: a founding_year, end_year or audience_size field that is empty or not
\* an integer leaves that field of the record unset, not an invalid number,
\* and totalAudience and the per-owner audience sums skip it.
C19_UnparsableFieldIsAbsent ==
    Parsed =>
        /\ \A k \in DOMAIN data :
              \A c \in NumericColumns :
                 last.arg.rows[k][c].kind \in {"empty", "garbage"} =>
                     data[k][c] = undefinedNumber
        /\ totalAudience = Num(WrittenAudience(last.arg.rows, Len(last.arg.rows)))
        /\ \A i \in DOMAIN owners :
              owners[i].value.totalAudience =
                  Num(ZeroFilledAudience(RecordsOf(owners[i].key),
                                         Len(RecordsOf(owners[i].key))))

C21_StoreWrittenOnce ==
    [][/\ data' # data => (loading = TRUE /\ loading' = FALSE)
       /\ loading = FALSE => (loading' = FALSE /\ data' = data)]_vars

\* a store of two records is still there after an owner was expanded in the
\* tree view, an outlet was selected and the pointer left a node
C21_Witness ==
    /\ Len(data) = 2
    /\ activeTab = "ownership"
    /\ expandedNodes # {}
    /\ selectedOutlet # undefined
    /\ last.op = "hover"
    /\ last.store = data

(* ---------------------------------------------------------------------- *)
(* The selection panel's wiring                                            *)
(* ---------------------------------------------------------------------- *)

\* C22: an owner-selection event of the panel (its onOwnerSelect callback)
\* invokes selectOwner and an outlet-selection event (its onOutletSelect
\* callback) invokes selectOutlet: a click on a panel button changes the
\* selection state as that operation does and reaches no error state.
C22_PanelClickSelects ==
    [][/\ allOwnersClick => (error' = undefined /\ handleOwnerSelect(undefined))
       /\ \A i \in DOMAIN owners :
            ownerButtonClick(owners[i]) =>
                (error' = undefined /\ handleOwnerSelect(OwnerButtonArg(owners[i])))
       /\ allOutletsClick => (error' = undefined /\ handleOutletSelect(undefined))
       /\ \A i \in DOMAIN data :
            outletButtonClick(data[i]) =>
                (error' = undefined /\ handleOutletSelect(OutletButtonArg(data[i])))]_vars

\* C23: panel clicks toggle. A click on the selected owner emits
\* selectOwner(undefined) and a click on another owner o emits selectOwner(o),
\* so two clicks on one owner from no selection end with all three fields
\* unset; a click on the selected outlet emits selectOutlet(undefined), so two
\* clicks on one outlet from no selection end with selectedOutlet unset and
\* selectedOwner and hoveredOwner still the outlet's owner.
C23_PanelClicksToggle ==
    [][/\ \A i \in DOMAIN owners :
            ownerButtonClick(owners[i]) =>
                LET o == owners[i].value.name
                IN  IF selectedOwner = o
                    THEN /\ selectedOwner' = undefined
                         /\ selectedOutlet' = undefined
                         /\ highlightedOwner' = undefined
                    ELSE /\ selectedOwner' = o
                         /\ selectedOutlet' = undefined
                         /\ highlightedOwner' = o
       /\ \A i \in DOMAIN data :
            outletButtonClick(data[i]) =>
                LET x == data[i].outlet
                    ownerOfX == data[find(data, x)].owner
                IN  IF selectedOutlet = x
                    THEN /\ selectedOutlet' = undefined
                         /\ selectedOwner' = selectedOwner
                         /\ highlightedOwner' = selectedOwner
                    ELSE /\ selectedOutlet' = x
                         /\ selectedOwner' = ownerOfX
                         /\ highlightedOwner' = ownerOfX]_vars

(* ---------------------------------------------------------------------- *)
(* Hovering and the derived values                                         *)
(* ---------------------------------------------------------------------- *)

\* C24: the visible record set, the hierarchy, totalOutlets, uniqueOwners and
\* totalAudience depend on the store, selectedOwner and selectedOutlet only:
\* the states before and after a hover, which differ in hoveredOwner alone,
\* have the same derived values.
C24_HoverKeepsDerivedValues ==
    last.op = "hover" =>
        LET before == filter(last.store, last.pre.selectedOwner,
                             last.pre.selectedOutlet)
        IN  /\ filteredData = before
            /\ ownershipData = groupByOwner(before)
            /\ totalOutlets = Len(before)
            /\ uniqueOwners = SetSize([i \in DOMAIN before |-> before[i].owner])
            /\ totalAudience = ReduceAudience(before, Len(before))

\* a hover has moved the highlight to an owner other than the selected one
\* while the selection hides part of the store
C24_Witness ==
    /\ last.op = "hover"
    /\ highlightedOwner # last.pre.hoveredOwner
    /\ highlightedOwner \in AudienceOwnerNames
    /\ selectedOwner \in AudienceOwnerNames
    /\ highlightedOwner # selectedOwner
    /\ 0 < totalOutlets
    /\ totalOutlets < Len(data)

\* the owner a drawn node of a tree stands for (the root stands for none)
OwnerOfNode(d) == IF d.type = "owner" THEN d.id ELSE d.outlet.owner

\* the pointer leaves an element of the chart that is shown
ChartMouseout ==
    barMouseout \/ legendMouseout \/ bubbleMouseout \/ treeMouseout \/ radialMouseout

\* C25: every chart emits hover(owner of the element) on mouseover and
\* hover(undefined) on mouseout, so after a mouseover and a mouseout
\* hoveredOwner is unset even when an owner is selected: the highlight of the
\* selected owner is not restored.
C25_MouseoutClearsHighlight ==
    [][/\ \A d \in TimelineBars : barMouseover(d) => highlightedOwner' = d.owner
       /\ \A d \in TimelineLegend : legendMouseover(d) => highlightedOwner' = d
       /\ \A d \in Bubbles : bubbleMouseover(d) => highlightedOwner' = d.owner
       /\ \A d \in OwnershipTreeNodes :
            (d.type # "root" /\ treeMouseover(d)) => highlightedOwner' = OwnerOfNode(d)
       /\ \A d \in RadialTreeNodes :
            (d.type # "root" /\ radialMouseover(d)) => highlightedOwner' = OwnerOfNode(d)
       /\ ChartMouseout =>
            /\ highlightedOwner' = undefined
            /\ selectedOwner' = selectedOwner
            /\ selectedOutlet' = selectedOutlet]_vars

\* an owner is selected and the pointer has just left an element of that
\* owner: the owner is still selected and nothing is highlighted
C25_Witness ==
    /\ last.op = "hover"
    /\ last.arg = undefined
    /\ last.pre.hoveredOwner \in AudienceOwnerNames
    /\ last.pre.selectedOwner = last.pre.hoveredOwner
    /\ selectedOwner = last.pre.selectedOwner
    /\ highlightedOwner = undefined

(* ---------------------------------------------------------------------- *)
(* A selected owner and its records                                        *)
(* ---------------------------------------------------------------------- *)

\* C26: after selectOwner(o), o owning at least one record, and until the next
\* selection event (hovers may follow), the visible set is exactly o's records,
\* uniqueOwners is 1 and the hierarchy has exactly one OwnerNode, of id o,
\* whose children are all of o's records; and for a non-empty store the visible
\* set is not empty as long as the owner and outlet arguments were undefined or
\* taken from the store's records.
C26_SelectedOwnerShowsItsRecords ==
    /\ (/\ last.op \in {"selectOwner", "hover"}
        /\ selectedOwner # undefined
        /\ selectedOutlet = undefined
        /\ RecordsOf(selectedOwner) # <<>>) =>
            /\ filteredData = RecordsOf(selectedOwner)
            /\ uniqueOwners = 1
            /\ Len(ownershipData) = 1
            /\ ownershipData[1].id = selectedOwner
            /\ [j \in DOMAIN ownershipData[1].children |->
                    ownershipData[1].children[j].outlet] = RecordsOf(selectedOwner)
    /\ (/\ data # <<>>
        /\ outletArgsInStore
        /\ (selectedOwner = undefined \/ selectedOwner \in StoreOwners)) =>
            filteredData # <<>>

(* ---------------------------------------------------------------------- *)
(* The ownership tree's expansion state                                    *)
(* ---------------------------------------------------------------------- *)

\* the owner nodes the Dashboard hands to the tree
OwnerNodes == {ownershipData[i] : i \in DOMAIN ownershipData}

\* the outlet nodes the tree has drawn
DrawnOutletNodes == {d \in OwnershipTreeNodes : d.type = "outlet"}

\* the selection is left as it is
SelectionKept ==
    /\ selectedOwner' = selectedOwner
    /\ selectedOutlet' = selectedOutlet
    /\ highlightedOwner' = highlightedOwner

\* C27: in the ownership tree the set of expanded owner ids starts empty; a
\* click on an owner node with at least one outlet toggles that owner's id and
\* no other; Collapse All empties the set and Expand All makes it the ids of
\* all owners of the view's data; an owner's outlets are shown exactly when its
\* id is in the set; none of these events changes selectedOwner,
\* selectedOutlet or hoveredOwner.
C27_ExpansionToggles ==
    /\ [](activeTab # "ownership" => expandedNodes = {})
    /\ [](activeTab = "ownership" =>
            DrawnOutletNodes =
                UNION {{n.children[j] : j \in DOMAIN n.children} :
                       n \in {m \in OwnerNodes : m.id \in expandedNodes}})
    /\ [][/\ (activeTab # "ownership" /\ activeTab' = "ownership") =>
                expandedNodes' = {}
          /\ \A d \in OwnershipTreeNodes :
                (/\ d.type = "owner"
                 /\ \E n \in OwnerNodes : n.id = d.id /\ Len(n.children) > 0
                 /\ nodeClick(d)) =>
                    /\ expandedNodes' =
                          (expandedNodes \ {d.id}) \cup ({d.id} \ expandedNodes)
                    /\ SelectionKept
          /\ collapseAll => (expandedNodes' = {} /\ SelectionKept)
          /\ expandAll =>
                (expandedNodes' = {n.id : n \in OwnerNodes} /\ SelectionKept)]_vars

\* the tree shows two owners, one of them expanded, while an owner is
\* highlighted
C27_Witness ==
    /\ activeTab = "ownership"
    /\ Cardinality(OwnerNodes) = 2
    /\ Cardinality(expandedNodes) = 1
    /\ DrawnOutletNodes # {}
    /\ highlightedOwner # undefined
====
